---- MODULE Spec2Model ----
(***************************************************************************)
(* seafile-helper (src/seafile_helper/helper.py) as a state machine.       *)
(*                                                                         *)
(* The state is the managed directory tree, which outlives a process, and  *)
(* the state of one run of the program: the parsed arguments, the Helper   *)
(* object's fields, the process working directory, the position in main /  *)
(* interactive / call_funcs / prepare_upgrade, what was written to stdout  *)
(* and how the process ended.  Successive runs work on the same tree.      *)
(*                                                                         *)
(* Environment assumptions, as in the program's documentation: the USER    *)
(* variable is set, the package tree /usr/share/seafile-server is intact   *)
(* and read-only, and os.system launches an opaque child that leaves the   *)
(* four managed directories as they are.  The service the instance belongs *)
(* to may be started by another process at any moment.                     *)
(***************************************************************************)
EXTENDS Integers, Sequences, FiniteSets, TLC

VARIABLES
    fs,          \* target tree: directory name -> content tag, or Absent
    pidFile,     \* runtime/seahub.pid exists
    run,         \* number of runs of the program started so far
    prev,        \* how prepare_upgrade ended in the previous run
    env,         \* [user, wkdirIsServer, pid] as check() found them in this run
    args,        \* argparse Namespace of the current run
    pc,          \* position of the current run
    mode,        \* branch of main taken: "interactive", "list", "flagged"
    k,           \* call_funcs: index of the key being looked at
    helper,      \* Helper fields: locale, upgrade, verbose, confirm
    cwd,         \* process working directory
    checked,     \* check() returned in this run
    calls,       \* methods started in this run, in order
    out,         \* lines written to stdout in this run
    reads,       \* console lines read by confirm() in this run
    lastConfirm, \* the last confirm() call: [asked, ok]
    sel,         \* the last select() call: [called, exits, value]
    prep,        \* outcomes of the prepare_upgrade steps of this run
    fs0,         \* the target tree when this run began
    status,      \* exit status; Running while the process lives
    diag,        \* message sys.exit wrote to stderr
    exc,         \* uncaught exception that ended the process, or NoExc
    fn,          \* a single call of confirm() or select(), for SpecFn
    keys,        \* keys of args.__dict__ in the order the dict holds them
    underPid     \* a step of this run changed the tree while the PID file existed

vars == <<fs, pidFile, run, prev, env, args, pc, mode, k, helper, cwd, checked,
          calls, out, reads, lastConfirm, sel, prep, fs0, status, diag, exc, fn,
          keys, underPid>>

----------------------------------------------------------------------------
(* Bounds and value sets                                                   *)

MaxRuns == 2
MaxOptions == 3

None    == "<None>"       \* Python None
Absent  == "<absent>"     \* the directory does not exist
Running == 0 - 1          \* status of a process that has not ended
NoExc   == "<none>"
NoDiag  == "<nodiag>"

Dirs == {"runtime", "upgrade", "seahub", "seahub-old"}

\* Locale directories shipped by the package and by an older installed seahub.
PkgLocales == {"de", "fr"}
OldLocales == {"fr"}
\* Files of the package's scripts/upgrade directory.
PkgUpgradeFiles == {"minor-upgrade.sh", "upgrade_6.sh", "README"}

\* Values the command line gives --locale and --upgrade.
LocaleArgs  == {None, "fr", "xx"}
UpgradeArgs == {None, "upgrade_6.sh"}

Users == {"seafile", "root"}

\* Replies an operator types at a confirmation prompt.
Replies == {"", "y", "Y", "n", "N", "yes"}

\* Lines an operator types at a selection prompt, as character sequences.
SelectLines ==
    { <<"1">>, <<"2">>, <<"0">>, <<"3">>, <<"4">>, <<"-", "1">>, <<"+", "2">>,
      <<" ", "1", " ">>, <<"x">>, <<>>, <<" ">>, <<"+">>, <<"1", "_">>,
      <<"0", "_", "1">>, <<"_", "2">>, <<"1", "0">>, <<"2", "x">>,
      <<"-", " ", "1">>, <<"1", "_", "_", "1">> }

\* Lists select() is called on: the two listings, the empty list, a list of
\* three.
ItemLists == { <<>>, <<"de", "fr">>, <<"minor-upgrade.sh", "upgrade_6.sh">>,
               <<"a", "b", "c">> }

----------------------------------------------------------------------------
(* argparse                                                                *)

\* The destinations of the options in the order of add_argument.
ArgKeys ==
    << "show_locales", "show_upgrades", "interactive", "prepare", "locale",
       "upgrade", "about", "no_verbose", "no_confirm", "no_color" >>

\* The Namespace of a command line that holds the program name only.
DefaultArgs ==
    [ show_locales |-> FALSE, show_upgrades |-> FALSE, interactive |-> FALSE,
      prepare |-> FALSE, locale |-> None, upgrade |-> None, about |-> FALSE,
      no_verbose |-> TRUE, no_confirm |-> TRUE, no_color |-> TRUE ]

\* The options a command line can hold, one token each: the key the option
\* is stored under and, for --locale and --upgrade, the string that follows
\* it.  --no-color changes escape sequences only, which are not modelled,
\* and is never given.
Tokens ==
    { [key |-> key, str |-> None] :
        key \in {"show_locales", "show_upgrades", "interactive", "prepare",
                 "about", "no_verbose", "no_confirm"} }
    \cup { [key |-> "locale", str |-> v] : v \in LocaleArgs \ {None} }
    \cup { [key |-> "upgrade", str |-> v] : v \in UpgradeArgs \ {None} }

\* sys.argv[1:]: at most MaxOptions options, each given once, in any order.
\* With --interactive main takes the branch of line 309 and reads none of
\* show_locales, show_upgrades, prepare, about, and interactive() assigns
\* the locale and the upgrade before it uses them, so --interactive comes
\* with the settings --no-verbose and --no-confirm only.
Argv ==
    { v \in UNION { [1..n -> Tokens] : n \in 0..MaxOptions } :
        /\ \A i, j \in 1..Len(v) : i # j => v[i].key # v[j].key
        /\ (\E i \in 1..Len(v) : v[i].key = "interactive") =>
              \A i \in 1..Len(v) :
                 v[i].key \in {"interactive", "no_verbose", "no_confirm"} }

\* setattr() that moves the key to the end of the dict.
setattr_move_to_end(ns, key, value) ==
    [ vals |-> [ns.vals EXCEPT ![key] = value],
      keys |-> Append(SelectSeq(ns.keys, LAMBDA x : x # key), key) ]

\* setattr(namespace, key, value): a key the dict holds keeps its place, a
\* new key goes to the end.
setattr(ns, key, value) ==
    [ vals |-> [ns.vals EXCEPT ![key] = value],
      keys |-> IF \E i \in 1..Len(ns.keys) : ns.keys[i] = key
               THEN ns.keys ELSE Append(ns.keys, key) ]

\* What an option stores: store_true and store_false the opposite of the
\* default, a str option its string.
Stored(t) ==
    IF t.key \in {"locale", "upgrade"} THEN t.str ELSE ~DefaultArgs[t.key]

\* parser.parse_args(): every default is set first, in the order of
\* add_argument, then each option of the command line is stored in turn.
RECURSIVE StoreAll(_, _)
StoreAll(ns, argv) ==
    IF argv = <<>> THEN ns
    ELSE StoreAll(setattr(ns, Head(argv).key, Stored(Head(argv))), Tail(argv))

parse_args(argv) == StoreAll([vals |-> DefaultArgs, keys |-> ArgKeys], argv)

\* len(sys.argv) == 1
NoArguments(a) == a = DefaultArgs

\* Python truth of dict_args[key]
Truthy(a, key) ==
    IF key \in {"locale", "upgrade"} THEN a[key] # None ELSE a[key] = TRUE

----------------------------------------------------------------------------
(* Pure helpers                                                            *)

\* Code-point order of the names used here, as sorted() compares them.
NameOrder ==
    << "README", "de", "fr", "minor-upgrade.sh", "upgrade_6.sh", "xx" >>

\* sorted(S) for a set S of names
sorted(S) == SelectSeq(NameOrder, LAMBDA n : n \in S)

\* next(os.walk('.'))[1] in <pkgdir>/seahub/locale, sorted
get_locales_available == sorted(PkgLocales)

\* glob.glob('*upgrade*.sh') in <pkgdir>/scripts/upgrade, sorted
get_upgrades_available ==
    sorted(PkgUpgradeFiles \cap {"minor-upgrade.sh", "upgrade_6.sh"})

Digits == {"0", "1", "2", "3", "4", "5", "6", "7", "8", "9"}

DigitVal(c) ==
    CASE c = "0" -> 0 [] c = "1" -> 1 [] c = "2" -> 2 [] c = "3" -> 3
      [] c = "4" -> 4 [] c = "5" -> 5 [] c = "6" -> 6 [] c = "7" -> 7
      [] c = "8" -> 8 [] c = "9" -> 9

RECURSIVE LStrip(_)
LStrip(s) == IF s # <<>> /\ Head(s) = " " THEN LStrip(Tail(s)) ELSE s

RECURSIVE RStrip(_)
RStrip(s) ==
    IF s # <<>> /\ s[Len(s)] = " " THEN RStrip(SubSeq(s, 1, Len(s) - 1)) ELSE s

\* Digits, with single underscores allowed between two digits.
ValidBody(b) ==
    /\ b # <<>>
    /\ b[1] \in Digits /\ b[Len(b)] \in Digits
    /\ \A i \in 1..Len(b) :
          \/ b[i] \in Digits
          \/ b[i] = "_" /\ i < Len(b) /\ b[i + 1] # "_"

RECURSIVE BodyValue(_, _)
BodyValue(b, acc) ==
    IF b = <<>> THEN acc
    ELSE IF Head(b) = "_" THEN BodyValue(Tail(b), acc)
    ELSE BodyValue(Tail(b), acc * 10 + DigitVal(Head(b)))

\* Python's int(str): [ok |-> FALSE] stands for ValueError.
int(line) ==
    LET s      == RStrip(LStrip(line))
        signed == s # <<>> /\ s[1] \in {"+", "-"}
        body   == IF signed THEN Tail(s) ELSE s
    IN  IF ValidBody(body)
        THEN [ok |-> TRUE,
              val |-> IF signed /\ s[1] = "-" THEN 0 - BodyValue(body, 0)
                      ELSE BodyValue(body, 0)]
        ELSE [ok |-> FALSE, val |-> 0]

\* check() with the user test before the directory test.
CheckDiag_user_first(e, pid) ==
    IF e.user # "seafile" THEN "You must use seafile user"
    ELSE IF ~e.wkdirIsServer THEN "You must be in /YourInstance/seafile-server/"
    ELSE IF pid THEN "You must stop seafile-server service"
    ELSE NoDiag

\* Helper.check: the message check() exits with, NoDiag when it returns.
CheckDiag(e, pid) ==
    IF ~e.wkdirIsServer THEN "You must be in /YourInstance/seafile-server/"
    ELSE IF e.user # "seafile" THEN "You must use seafile user"
    ELSE IF pid THEN "You must stop seafile-server service"
    ELSE NoDiag

\* confirm() with yes as the default answer.
ReplyAccepted_default_yes(reply) == reply = "" \/ reply = "y" \/ reply = "Y"

\* Helper.confirm: reply == 'y' or reply == 'Y'
ReplyAccepted(reply) == reply = "y" \/ reply = "Y"

\* confirm() that prompts whatever the mode.
confirm_always_ask(h, reply) == [asked |-> TRUE, ok |-> ReplyAccepted(reply)]

\* confirm() with the sense of the flag inverted.
confirm_inverted_flag(h, reply) ==
    IF ~h.confirm
    THEN [asked |-> TRUE, ok |-> ReplyAccepted(reply)]
    ELSE [asked |-> FALSE, ok |-> TRUE]

\* Helper.confirm, reply being the line the console holds.  asked: the line
\* was read; ok: the value returned.
confirm(h, reply) ==
    IF h.confirm
    THEN [asked |-> TRUE, ok |-> ReplyAccepted(reply)]
    ELSE [asked |-> FALSE, ok |-> TRUE]

\* select() counting positions from 0.
select_zero_based(list_items, stdin) ==
    LET reply == int(Head(stdin))
    IN  IF ~reply.ok THEN [exits |-> TRUE, value |-> None, rest |-> Tail(stdin)]
        ELSE IF reply.val >= 0 /\ reply.val < Len(list_items)
        THEN [exits |-> FALSE, value |-> list_items[reply.val + 1], rest |-> Tail(stdin)]
        ELSE [exits |-> FALSE, value |-> None, rest |-> Tail(stdin)]

\* Helper.select, stdin being the lines the console holds.  exits stands for
\* sys.exit(1), value None for falling off the end of the function, rest
\* for the lines left unread.
select(list_items, stdin) ==
    LET reply == int(Head(stdin))
    IN  IF ~reply.ok THEN [exits |-> TRUE, value |-> None, rest |-> Tail(stdin)]
        ELSE IF reply.val > 0 /\ reply.val <= Len(list_items)
        THEN [exits |-> FALSE, value |-> list_items[reply.val], rest |-> Tail(stdin)]
        ELSE [exits |-> FALSE, value |-> None, rest |-> Tail(stdin)]

\* Helper.verbose: stdout after writing msgs
verbose(h, o, msgs) == IF h.verbose THEN o \o msgs ELSE o

\* Locale directories under <wkdir>/seahub/locale
TargetLocales(f) ==
    IF f["seahub"] = "pkg" THEN PkgLocales
    ELSE IF f["seahub"] = "old" THEN OldLocales
    ELSE {}

----------------------------------------------------------------------------
(* Initial state and process start                                         *)

NoConfirm == [called |-> FALSE, asked |-> FALSE, ok |-> FALSE]
NoSelect  == [called |-> FALSE, exits |-> FALSE, value |-> None]
NoCall    == [op |-> "none"]

\* No process: the variables of a run at their rest values.
NoProcess ==
    /\ env = [user |-> "seafile", wkdirIsServer |-> TRUE, pid |-> FALSE]
    /\ args = DefaultArgs
    /\ pc = "idle"
    /\ mode = "none"
    /\ k = 0
    /\ helper = [locale |-> None, upgrade |-> None, verbose |-> TRUE, confirm |-> TRUE]
    /\ cwd = "wkdir"
    /\ checked = FALSE
    /\ calls = <<>>
    /\ out = <<>>
    /\ reads = 0
    /\ lastConfirm = NoConfirm
    /\ sel = NoSelect
    /\ prep = <<>>
    /\ fs0 = fs
    /\ status = Running
    /\ diag = NoDiag
    /\ exc = NoExc
    /\ keys = ArgKeys
    /\ underPid = FALSE

\* A tree left by an earlier installation, or none; the service may be
\* running, its PID file then lies in runtime.
Init ==
    /\ fs \in { f \in [Dirs -> {Absent, "old", "stale"}] :
                  /\ f["runtime"] \in {Absent, "old"}
                  /\ f["upgrade"] \in {Absent, "old"}
                  /\ f["seahub"] \in {Absent, "old"}
                  /\ f["seahub-old"] \in {Absent, "stale"} }
    /\ pidFile \in BOOLEAN
    /\ pidFile => fs["runtime"] # Absent
    /\ run = 0
    /\ prev = "none"
    /\ NoProcess
    /\ fn = NoCall

\* How the run ends: sys.exit(code or message), an uncaught exception, or
\* main returning.
Exit(st, msg, e) == pc' = "exited" /\ status' = st /\ diag' = msg /\ exc' = e
Finish      == Exit(0, NoDiag, NoExc)
Raise(e)    == Exit(1, NoDiag, e)
Goto(p)     == pc' = p /\ UNCHANGED <<status, diag, exc>>

\* What the run that just ended leaves for the next one to compare with:
\* the outcome of the rotation step of a prepare_upgrade that ran to its end.
PrepareSummary(p) == IF Len(p) = 6 THEN p[4] ELSE "none"

\* A new process: argparse, Helper.__init__ (lines 270-305).
Invoke ==
    /\ pc = "idle"
    /\ run < MaxRuns
    /\ \E argv \in Argv :
          LET ns == parse_args(argv)
              a  == ns.vals
          IN  /\ args' = a
              /\ keys' = ns.keys
              /\ helper' = [locale |-> a.locale, upgrade |-> a.upgrade,
                            verbose |-> a.no_verbose, confirm |-> a.no_confirm]
    /\ run' = run + 1
    /\ pc' = "main"
    /\ mode' = "none"
    /\ k' = 0
    /\ cwd' = "wkdir"
    /\ checked' = FALSE
    /\ calls' = <<>>
    /\ out' = <<>>
    /\ reads' = 0
    /\ lastConfirm' = NoConfirm
    /\ sel' = NoSelect
    /\ prep' = <<>>
    /\ fs0' = fs
    /\ status' = Running
    /\ diag' = NoDiag
    /\ exc' = NoExc
    /\ underPid' = FALSE
    /\ UNCHANGED <<fs, pidFile, prev, env, fn>>

\* The process is gone: nothing of the run is left but the tree.
Reap ==
    /\ pc = "exited"
    /\ prev' = PrepareSummary(prep)
    /\ pc' = "idle"
    /\ args' = DefaultArgs
    /\ env' = [user |-> "seafile", wkdirIsServer |-> TRUE, pid |-> FALSE]
    /\ helper' = [locale |-> None, upgrade |-> None, verbose |-> TRUE, confirm |-> TRUE]
    /\ mode' = "none"
    /\ k' = 0
    /\ cwd' = "wkdir"
    /\ checked' = FALSE
    /\ calls' = <<>>
    /\ out' = <<>>
    /\ reads' = 0
    /\ lastConfirm' = NoConfirm
    /\ sel' = NoSelect
    /\ prep' = <<>>
    /\ fs0' = fs
    /\ status' = Running
    /\ diag' = NoDiag
    /\ exc' = NoExc
    /\ keys' = ArgKeys
    /\ underPid' = FALSE
    /\ UNCHANGED <<fs, pidFile, run, fn>>

----------------------------------------------------------------------------
(* main                                                                    *)

\* main() falling back to the interactive flow when no argument is given.
main_no_arguments_interactive ==
    /\ pc = "main"
    /\ NoArguments(args)
    /\ mode' = "interactive"
    /\ calls' = Append(calls, "interactive")
    /\ Goto("check")
    /\ UNCHANGED <<fs, pidFile, run, prev, env, args, k, helper, cwd,
                   checked, out, reads, lastConfirm, sel, prep, fs0, fn, keys, underPid>>

\* if len(sys.argv) == 1: sys.exit('Argument missing, ...')
main_no_arguments ==
    /\ pc = "main"
    /\ NoArguments(args)
    /\ Exit(1, "Argument missing", NoExc)
    /\ UNCHANGED <<fs, pidFile, run, prev, env, args, mode, k, helper, cwd,
                   checked, calls, out, reads, lastConfirm, sel, prep, fs0, fn, keys, underPid>>

\* interactive() that lists the locales of the package before anything else.
main_interactive_lists_first ==
    /\ pc = "main"
    /\ ~NoArguments(args)
    /\ args.interactive
    /\ mode' = "interactive"
    /\ calls' = Append(calls, "interactive")
    /\ cwd' = "pkg_locale"
    /\ out' = out \o get_locales_available
    /\ Goto("check")
    /\ UNCHANGED <<fs, pidFile, run, prev, env, args, k, helper,
                   checked, reads, lastConfirm, sel, prep, fs0, fn, keys, underPid>>

\* elif args.interactive: helper.interactive()
main_interactive ==
    /\ pc = "main"
    /\ ~NoArguments(args)
    /\ args.interactive
    /\ mode' = "interactive"
    /\ calls' = Append(calls, "interactive")
    /\ Goto("check")
    /\ UNCHANGED <<fs, pidFile, run, prev, env, args, k, helper, cwd,
                   checked, out, reads, lastConfirm, sel, prep, fs0, fn, keys, underPid>>

\* elif args.about: print version and the module docstring
main_about ==
    /\ pc = "main"
    /\ ~NoArguments(args)
    /\ ~args.interactive
    /\ args.about
    /\ out' = out \o <<"version 0.1", "license">>
    /\ Finish
    /\ UNCHANGED <<fs, pidFile, run, prev, env, args, mode, k, helper, cwd,
                   checked, calls, reads, lastConfirm, sel, prep, fs0, fn, keys, underPid>>

\* The handlers main passes to call_funcs, and where each begins.
Funcs(m) ==
    IF m = "list" THEN {"show_locales", "show_upgrades"}
    ELSE {"prepare", "locale", "upgrade"}

Entry(key) ==
    CASE key = "show_locales"  -> "show_locales"
      [] key = "show_upgrades" -> "show_upgrades"
      [] key = "prepare"       -> "prepare_runtime"
      [] key = "locale"        -> "configure_locale"
      [] key = "upgrade"       -> "run_upgrade"

\* call_funcs: the loop over dict_args.keys() from position i on, up to the
\* next key that is truthy and has a handler; a falsy key is skipped and the
\* KeyError of a key without a handler is passed.  Len(keys) + 1 when
\* there is none.
RECURSIVE NextKey(_, _, _)
NextKey(a, m, i) ==
    IF i > Len(keys) THEN i
    ELSE IF Truthy(a, keys[i]) /\ keys[i] \in Funcs(m) THEN i
    ELSE NextKey(a, m, i + 1)

\* call_funcs calls the handler of key k; past the last key main returns.
call_funcs ==
    /\ pc = "call_funcs"
    /\ IF k > Len(keys) THEN Finish ELSE Goto(Entry(keys[k]))
    /\ UNCHANGED <<fs, pidFile, run, prev, env, args, mode, k, helper, cwd, checked,
                   calls, out, reads, lastConfirm, sel, prep, fs0, fn, keys, underPid>>

\* elif args.show_locales or args.show_upgrades: call_funcs(show_*)
main_show ==
    /\ pc = "main"
    /\ ~NoArguments(args)
    /\ ~args.interactive
    /\ ~args.about
    /\ args.show_locales \/ args.show_upgrades
    /\ mode' = "list"
    /\ k' = NextKey(args, "list", 1)
    /\ Goto("call_funcs")
    /\ UNCHANGED <<fs, pidFile, run, prev, env, args, helper, cwd,
                   checked, calls, out, reads, lastConfirm, sel, prep, fs0, fn, keys, underPid>>

\* main() calling the handlers without helper.check().
main_funcs_unchecked ==
    /\ pc = "main"
    /\ ~NoArguments(args)
    /\ ~args.interactive
    /\ ~args.about
    /\ ~(args.show_locales \/ args.show_upgrades)
    /\ mode' = "flagged"
    /\ k' = NextKey(args, "flagged", 1)
    /\ Goto("call_funcs")
    /\ UNCHANGED <<fs, pidFile, run, prev, env, args, helper, cwd,
                   checked, calls, out, reads, lastConfirm, sel, prep, fs0, fn, keys, underPid>>

\* else: helper.check(); call_funcs(prepare, locale, upgrade)
main_funcs ==
    /\ pc = "main"
    /\ ~NoArguments(args)
    /\ ~args.interactive
    /\ ~args.about
    /\ ~(args.show_locales \/ args.show_upgrades)
    /\ mode' = "flagged"
    /\ Goto("check")
    /\ UNCHANGED <<fs, pidFile, run, prev, env, args, k, helper, cwd,
                   checked, calls, out, reads, lastConfirm, sel, prep, fs0, fn, keys, underPid>>

\* Helper.check.  Nothing else reads the name of the working directory or
\* USER, so the values the run was started with are drawn here.
check ==
    /\ pc = "check"
    /\ calls' = Append(calls, "check")
    /\ \E u \in Users, w \in BOOLEAN :
          LET e == [user |-> u, wkdirIsServer |-> w, pid |-> pidFile]
              d == CheckDiag(e, e.pid)
          IN  /\ env' = e
              /\ IF d # NoDiag
                 THEN /\ Exit(1, d, NoExc)
                      /\ UNCHANGED <<checked, k>>
                 ELSE /\ checked' = TRUE
                      /\ k' = IF mode = "interactive" THEN k
                              ELSE NextKey(args, mode, 1)
                      /\ Goto(IF mode = "interactive" THEN "offer_prepare"
                              ELSE "call_funcs")
    /\ UNCHANGED <<fs, pidFile, run, prev, args, mode, helper, cwd,
                   out, reads, lastConfirm, sel, prep, fs0, fn, keys, underPid>>

\* A handler returns: to the loop of call_funcs, or to the next statement
\* of interactive().
Return(next) ==
    IF mode = "interactive"
    THEN /\ k' = k
         /\ IF next = "end" THEN Finish ELSE Goto(next)
    ELSE /\ k' = NextKey(args, mode, k + 1)
         /\ Goto("call_funcs")

----------------------------------------------------------------------------
(* Listing                                                                 *)

\* Helper.show: one line per item
show(o, list_items) == o \o list_items

\* Helper.show_locales
show_locales ==
    /\ pc = "show_locales"
    /\ calls' = Append(calls, "show_locales")
    /\ cwd' = "pkg_locale"
    /\ out' = show(out, get_locales_available)
    /\ Return("end")
    /\ UNCHANGED <<fs, pidFile, run, prev, env, args, mode, helper, checked,
                   reads, lastConfirm, sel, prep, fs0, fn, keys, underPid>>

\* Helper.show_upgrades
show_upgrades ==
    /\ pc = "show_upgrades"
    /\ calls' = Append(calls, "show_upgrades")
    /\ cwd' = "pkg_upgrade"
    /\ out' = show(out, get_upgrades_available)
    /\ Return("end")
    /\ UNCHANGED <<fs, pidFile, run, prev, env, args, mode, helper, checked,
                   reads, lastConfirm, sel, prep, fs0, fn, keys, underPid>>

----------------------------------------------------------------------------
(* Helper.interactive: the three offers                                    *)

\* The bookkeeping of one confirm() call with outcome c.
Confirmed(c) ==
    /\ lastConfirm' = [called |-> TRUE, asked |-> c.asked, ok |-> c.ok]
    /\ reads' = reads + (IF c.asked THEN 1 ELSE 0)

\* interactive() returning as soon as its first offer is declined.
offer_prepare_decline_ends ==
    /\ pc = "offer_prepare"
    /\ \E reply \in Replies : LET c == confirm(helper, reply) IN
          /\ Confirmed(c)
          /\ IF c.ok THEN Goto("prepare_runtime") ELSE Finish
    /\ UNCHANGED <<fs, pidFile, run, prev, env, args, mode, k, helper, cwd,
                   checked, calls, out, sel, prep, fs0, fn, keys, underPid>>

\* if self.confirm('Prepares seafile-server's instance ?'): ...
offer_prepare ==
    /\ pc = "offer_prepare"
    /\ \E reply \in Replies : LET c == confirm(helper, reply) IN
          /\ Confirmed(c)
          /\ Goto(IF c.ok THEN "prepare_runtime" ELSE "offer_locale")
    /\ UNCHANGED <<fs, pidFile, run, prev, env, args, mode, k, helper, cwd,
                   checked, calls, out, sel, prep, fs0, fn, keys, underPid>>

\* if self.confirm('Select a seahub locale ?'): ...
offer_locale ==
    /\ pc = "offer_locale"
    /\ \E reply \in Replies : LET c == confirm(helper, reply) IN
          /\ Confirmed(c)
          /\ Goto(IF c.ok THEN "set_locale_selected" ELSE "offer_upgrade")
    /\ UNCHANGED <<fs, pidFile, run, prev, env, args, mode, k, helper, cwd,
                   checked, calls, out, sel, prep, fs0, fn, keys, underPid>>

\* if self.confirm('Select a script upgrade ?'): ...
offer_upgrade ==
    /\ pc = "offer_upgrade"
    /\ \E reply \in Replies : LET c == confirm(helper, reply) IN
          /\ Confirmed(c)
          /\ IF c.ok THEN Goto("set_upgrade_selected") ELSE Finish
    /\ UNCHANGED <<fs, pidFile, run, prev, env, args, mode, k, helper, cwd,
                   checked, calls, out, sel, prep, fs0, fn, keys, underPid>>

----------------------------------------------------------------------------
(* Helper.prepare_upgrade, one action per filesystem step                  *)

\* Bookkeeping of a step that writes to the target tree when changed holds.
Touch(changed) == underPid' = (underPid \/ (pidFile /\ changed))

\* mkdir() and the copy that go ahead on an existing directory.
mkdir_exist_ok(f, d) == [raised |-> NoExc, fs |-> [f EXCEPT ![d] = "pkg"]]

\* os.mkdir(path) followed, when it succeeds, by the copy of seahub.conf
mkdir(f, d) ==
    IF f[d] # Absent THEN [raised |-> "FileExistsError", fs |-> f]
    ELSE [raised |-> NoExc, fs |-> [f EXCEPT ![d] = "pkg"]]

\* rmtree() given a path that never exists.
rmtree_wrong_path(f, d) == [raised |-> "FileNotFoundError", fs |-> f]

\* shutil.rmtree(<wkdir>/d)
rmtree(f, d) ==
    IF f[d] = Absent THEN [raised |-> "FileNotFoundError", fs |-> f]
    ELSE [raised |-> NoExc, fs |-> [f EXCEPT ![d] = Absent]]

\* A rotation that copies src to dst and leaves src in place.
move_copy(f, src, dst) ==
    IF f[src] = Absent THEN [raised |-> "FileNotFoundError", fs |-> f]
    ELSE [raised |-> NoExc, fs |-> [f EXCEPT ![dst] = f[src]]]

\* shutil.move(<wkdir>/src, <wkdir>/dst): into dst when dst is a directory
move(f, src, dst) ==
    IF f[src] = Absent THEN [raised |-> "FileNotFoundError", fs |-> f]
    ELSE IF f[dst] # Absent
    THEN [raised |-> NoExc, fs |-> [f EXCEPT ![dst] = "nested", ![src] = Absent]]
    ELSE [raised |-> NoExc, fs |-> [f EXCEPT ![dst] = f[src], ![src] = Absent]]

\* copytree() writing outside the target tree.
copytree_elsewhere(f, d) == [raised |-> NoExc, fs |-> f]

\* shutil.copytree(<pkgdir>/..., <wkdir>/d)
copytree(f, d) ==
    IF f[d] # Absent THEN [raised |-> "FileExistsError", fs |-> f]
    ELSE [raised |-> NoExc, fs |-> [f EXCEPT ![d] = "pkg"]]

\* Lines 139-148.  'runtime' is created relative to the working directory,
\* seahub.conf is copied to <wkdir>/runtime.
prepare_runtime ==
    /\ pc = "prepare_runtime"
    /\ calls' = Append(calls, "prepare_upgrade")
    /\ IF cwd = "wkdir"
       THEN LET r == mkdir(fs, "runtime")
                res == IF r.raised = NoExc THEN "Done" ELSE "Already exist"
            IN  /\ fs' = r.fs
                /\ out' = verbose(helper, out, <<"-> Import runtime content... ", res>>)
                /\ prep' = Append(prep, res)
                /\ Goto("prepare_remove_upgrade")
       ELSE \E there \in BOOLEAN :  \* a 'runtime' entry in the other directory
              IF there
              THEN /\ fs' = fs
                   /\ out' = verbose(helper, out,
                                     <<"-> Import runtime content... ", "Already exist">>)
                   /\ prep' = Append(prep, "Already exist")
                   /\ Goto("prepare_remove_upgrade")
              ELSE IF fs["runtime"] = Absent
              THEN /\ fs' = fs
                   /\ out' = verbose(helper, out, <<"-> Import runtime content... ">>)
                   /\ prep' = Append(prep, "FileNotFoundError")
                   /\ Raise("FileNotFoundError")
              ELSE /\ fs' = fs
                   /\ out' = verbose(helper, out,
                                     <<"-> Import runtime content... ", "Done">>)
                   /\ prep' = Append(prep, "Done")
                   /\ Goto("prepare_remove_upgrade")
    /\ Touch(fs' # fs)
    /\ UNCHANGED <<pidFile, run, prev, env, args, mode, k, helper, cwd, checked,
                   reads, lastConfirm, sel, fs0, fn, keys>>

\* A removal that looks for the PID file again before it touches the tree.
prepare_remove_rechecks(dire, header, next) ==
    LET r == rmtree(fs, dire)
        res == IF r.raised = NoExc THEN "Done" ELSE "Not exist"
    IN  /\ IF pidFile
           THEN /\ fs' = fs
                /\ UNCHANGED <<out, prep>>
                /\ Exit(1, "You must stop seafile-server service", NoExc)
           ELSE /\ fs' = r.fs
                /\ out' = verbose(helper, out, <<header, res>>)
                /\ prep' = Append(prep, res)
                /\ Goto(next)
        /\ Touch(fs' # fs)
        /\ UNCHANGED <<pidFile, run, prev, env, args, mode, k, helper, cwd,
                       checked, calls, reads, lastConfirm, sel, fs0, fn, keys>>

\* Lines 150-158, one pass of the loop.
prepare_remove(dire, header, next) ==
    LET r == rmtree(fs, dire)
        res == IF r.raised = NoExc THEN "Done" ELSE "Not exist"
    IN  /\ fs' = r.fs
        /\ out' = verbose(helper, out, <<header, res>>)
        /\ prep' = Append(prep, res)
        /\ Goto(next)
        /\ Touch(fs' # fs)
        /\ UNCHANGED <<pidFile, run, prev, env, args, mode, k, helper, cwd,
                       checked, calls, reads, lastConfirm, sel, fs0, fn, keys>>

prepare_remove_upgrade ==
    /\ pc = "prepare_remove_upgrade"
    /\ prepare_remove("upgrade", "-> Remove upgrade... ", "prepare_remove_seahub_old")

prepare_remove_seahub_old ==
    /\ pc = "prepare_remove_seahub_old"
    /\ prepare_remove("seahub-old", "-> Remove seahub-old... ", "prepare_backup")

\* Lines 160-168.
prepare_backup ==
    /\ pc = "prepare_backup"
    /\ LET r == move(fs, "seahub", "seahub-old")
           res == IF r.raised = NoExc THEN "Done" ELSE "Not exist"
       IN  /\ fs' = r.fs
           /\ out' = verbose(helper, out, <<"-> Backup seahub to seahub-old... ", res>>)
           /\ prep' = Append(prep, res)
           /\ Goto("prepare_import_upgrade")
    /\ Touch(fs' # fs)
    /\ UNCHANGED <<pidFile, run, prev, env, args, mode, k, helper, cwd,
                   checked, calls, reads, lastConfirm, sel, fs0, fn, keys>>

\* Lines 170-174.  FileExistsError is not caught.
prepare_import_upgrade ==
    /\ pc = "prepare_import_upgrade"
    /\ LET r == copytree(fs, "upgrade")
       IN  /\ fs' = r.fs
           /\ IF r.raised = NoExc
              THEN /\ out' = verbose(helper, out, <<"-> Import scripts upgrade... ", "Done">>)
                   /\ prep' = Append(prep, "Done")
                   /\ Goto("prepare_import_seahub")
              ELSE /\ out' = verbose(helper, out, <<"-> Import scripts upgrade... ">>)
                   /\ prep' = Append(prep, r.raised)
                   /\ Raise(r.raised)
    /\ Touch(fs' # fs)
    /\ UNCHANGED <<pidFile, run, prev, env, args, mode, k, helper, cwd,
                   checked, calls, reads, lastConfirm, sel, fs0, fn, keys>>

\* Lines 175-179.  FileExistsError is not caught.
prepare_import_seahub ==
    /\ pc = "prepare_import_seahub"
    /\ LET r == copytree(fs, "seahub")
       IN  /\ fs' = r.fs
           /\ IF r.raised = NoExc
              THEN /\ out' = verbose(helper, out, <<"-> Import seahub... ", "Done">>)
                   /\ prep' = Append(prep, "Done")
                   /\ Return("offer_locale")
              ELSE /\ out' = verbose(helper, out, <<"-> Import seahub... ">>)
                   /\ prep' = Append(prep, r.raised)
                   /\ k' = k
                   /\ Raise(r.raised)
    /\ Touch(fs' # fs)
    /\ UNCHANGED <<pidFile, run, prev, env, args, mode, helper, cwd,
                   checked, calls, reads, lastConfirm, sel, fs0, fn, keys>>

----------------------------------------------------------------------------
(* Selection, locale compilation, upgrade script                           *)

\* Helper.select with its console read, called on list_items; attr is the
\* Helper field the caller assigns the result to.
Selected(list_items, msg, attr, next) ==
    /\ out' = show(out, list_items) \o <<msg>>
    /\ \E line \in SelectLines :
          LET r == select(list_items, <<line>>)
          IN  /\ sel' = [called |-> TRUE, exits |-> r.exits, value |-> r.value]
              /\ IF r.exits
                 THEN /\ Exit(1, NoDiag, NoExc)  \* sys.exit(1)
                      /\ helper' = helper
                 ELSE /\ helper' = [helper EXCEPT ![attr] = r.value]
                      /\ Goto(next)

\* Helper.set_locale_selected
set_locale_selected ==
    /\ pc = "set_locale_selected"
    /\ calls' = Append(calls, "set_locale_selected")
    /\ cwd' = "pkg_locale"
    /\ Selected(get_locales_available, "Select a locale (ex: 1)", "locale",
                "configure_locale")
    /\ UNCHANGED <<fs, pidFile, run, prev, env, args, mode, k, checked,
                   reads, lastConfirm, prep, fs0, fn, keys, underPid>>

\* Helper.set_upgrade_selected
set_upgrade_selected ==
    /\ pc = "set_upgrade_selected"
    /\ calls' = Append(calls, "set_upgrade_selected")
    /\ cwd' = "pkg_upgrade"
    /\ Selected(get_upgrades_available, "Select an upgrade (ex: 1)", "upgrade",
                "run_upgrade")
    /\ UNCHANGED <<fs, pidFile, run, prev, env, args, mode, k, checked,
                   reads, lastConfirm, prep, fs0, fn, keys, underPid>>

\* configure_locale() without the except clause: a missing LC_MESSAGES
\* directory ends the process.
configure_locale_uncaught ==
    /\ pc = "configure_locale"
    /\ \E reply \in Replies : LET c == confirm(helper, reply) IN
          /\ Confirmed(c)
          /\ IF ~c.ok
             THEN /\ UNCHANGED <<cwd, out>>
                  /\ calls' = Append(calls, "configure_locale")
                  /\ Touch(FALSE)
                  /\ Return("offer_upgrade")
             ELSE IF helper.locale = None
             THEN /\ UNCHANGED cwd
                  /\ out' = verbose(helper, out, <<"-> Configure seahub locale... ">>)
                  /\ calls' = Append(calls, "configure_locale")
                  /\ Touch(FALSE)
                  /\ k' = k
                  /\ Raise("TypeError")
             ELSE IF helper.locale \in TargetLocales(fs)
             THEN /\ cwd' = "wkdir"
                  /\ out' = verbose(helper, out,
                                    <<"-> Configure seahub locale... ", "Done">>)
                  /\ calls' = calls \o <<"configure_locale", "msgfmt">>
                  /\ Touch(TRUE)
                  /\ Return("offer_upgrade")
             ELSE /\ UNCHANGED cwd
                  /\ out' = verbose(helper, out, <<"-> Configure seahub locale... ">>)
                  /\ calls' = Append(calls, "configure_locale")
                  /\ Touch(FALSE)
                  /\ k' = k
                  /\ Raise("FileNotFoundError")
    /\ UNCHANGED <<fs, pidFile, run, prev, env, args, mode, helper, checked,
                   sel, prep, fs0, fn, keys>>

\* Helper.configure_locale.  os.path.join raises TypeError on None; a
\* missing LC_MESSAGES directory is reported and leaves the working
\* directory where it was.
configure_locale ==
    /\ pc = "configure_locale"
    /\ \E reply \in Replies : LET c == confirm(helper, reply) IN
          /\ Confirmed(c)
          /\ IF ~c.ok
             THEN /\ UNCHANGED <<cwd, out>>
                  /\ calls' = Append(calls, "configure_locale")
                  /\ Touch(FALSE)
                  /\ Return("offer_upgrade")
             ELSE IF helper.locale = None
             THEN /\ UNCHANGED cwd
                  /\ out' = verbose(helper, out, <<"-> Configure seahub locale... ">>)
                  /\ calls' = Append(calls, "configure_locale")
                  /\ Touch(FALSE)
                  /\ k' = k
                  /\ Raise("TypeError")
             ELSE IF helper.locale \in TargetLocales(fs)
             THEN /\ cwd' = "wkdir"
                  /\ out' = verbose(helper, out,
                                    <<"-> Configure seahub locale... ", "Done">>)
                  /\ calls' = calls \o <<"configure_locale", "msgfmt">>
                  /\ Touch(TRUE)  \* msgfmt writes django.mo
                  /\ Return("offer_upgrade")
             ELSE /\ UNCHANGED cwd
                  /\ out' = verbose(helper, out, <<"-> Configure seahub locale... ">>)
                               \o <<"ignored not available">>
                  /\ calls' = Append(calls, "configure_locale")
                  /\ Touch(FALSE)
                  /\ Return("offer_upgrade")
    /\ UNCHANGED <<fs, pidFile, run, prev, env, args, mode, helper, checked,
                   sel, prep, fs0, fn, keys>>

\* Helper.run_upgrade.  The chdir comes first and raises FileNotFoundError
\* when <wkdir>/upgrade is missing; './' + None raises TypeError.
run_upgrade ==
    /\ pc = "run_upgrade"
    /\ IF fs["upgrade"] = Absent
       THEN /\ calls' = Append(calls, "run_upgrade")
            /\ k' = k
            /\ Raise("FileNotFoundError")
            /\ UNCHANGED <<cwd, reads, lastConfirm, underPid>>
       ELSE /\ cwd' = "upgrade"
            /\ \E reply \in Replies : LET c == confirm(helper, reply) IN
                  /\ Confirmed(c)
                  /\ IF ~c.ok
                     THEN /\ calls' = Append(calls, "run_upgrade")
                          /\ Touch(FALSE)
                          /\ Return("end")
                     ELSE IF helper.upgrade = None
                     THEN /\ calls' = Append(calls, "run_upgrade")
                          /\ Touch(FALSE)
                          /\ k' = k
                          /\ Raise("TypeError")
                     ELSE /\ calls' = calls \o <<"run_upgrade", "script">>
                          /\ Touch(TRUE)  \* the script works on the instance
                          /\ Return("end")
    /\ UNCHANGED <<fs, pidFile, run, prev, env, args, mode, helper, checked,
                   out, sel, prep, fs0, fn, keys>>

----------------------------------------------------------------------------
(* Operator interruption                                                   *)

\* The conventional status of a process ended by SIGINT.
InterruptStatus_sigint == 128 + 2

\* The status sys.exit('') ends the process with: a str that is not None is
\* printed to stderr and the status is 1.
InterruptStatus == 1

\* An interruption handled by putting the tree back as the run found it.
Interrupt_rollback ==
    /\ pc \notin {"idle", "exited"}
    /\ Exit(InterruptStatus, "", NoExc)
    /\ fs' = fs0
    /\ UNCHANGED <<pidFile, run, prev, env, args, mode, k, helper, cwd,
                   checked, calls, out, reads, lastConfirm, sel, prep, fs0, fn,
                   keys, underPid>>

\* except KeyboardInterrupt: sys.exit('')
Interrupt ==
    /\ pc \notin {"idle", "exited"}
    /\ Exit(InterruptStatus, "", NoExc)
    /\ UNCHANGED <<fs, pidFile, run, prev, env, args, mode, k, helper, cwd,
                   checked, calls, out, reads, lastConfirm, sel, prep, fs0, fn, keys, underPid>>

----------------------------------------------------------------------------
(* The service                                                             *)

\* Another process starts the service, which writes runtime/seahub.pid, the
\* file check() looks for.  Nothing in the program removes it.
CreatePidFile ==
    /\ ~pidFile
    /\ fs["runtime"] # Absent
    /\ pidFile' = TRUE
    /\ UNCHANGED <<fs, run, prev, env, args, pc, mode, k, helper, cwd, checked,
                   calls, out, reads, lastConfirm, sel, prep, fs0, status, diag,
                   exc, fn, keys, underPid>>

----------------------------------------------------------------------------

Next ==
    \/ Invoke
    \/ Reap
    \/ main_no_arguments
    \/ main_interactive
    \/ main_about
    \/ main_show
    \/ main_funcs
    \/ check
    \/ call_funcs
    \/ show_locales
    \/ show_upgrades
    \/ offer_prepare
    \/ offer_locale
    \/ offer_upgrade
    \/ prepare_runtime
    \/ prepare_remove_upgrade
    \/ prepare_remove_seahub_old
    \/ prepare_backup
    \/ prepare_import_upgrade
    \/ prepare_import_seahub
    \/ set_locale_selected
    \/ set_upgrade_selected
    \/ configure_locale
    \/ run_upgrade
    \/ Interrupt
    \/ CreatePidFile

Spec == Init /\ [][Next]_vars

----------------------------------------------------------------------------
(* confirm() and select() called once on drawn inputs                      *)

\* The calls: confirm in either mode on each reply, select on each list with
\* one line on the console, or one line and another behind it.
FnCalls ==
    { [op |-> "confirm", done |-> FALSE, confirmMode |-> m, reply |-> r,
       items |-> <<>>, stdin |-> <<>>, asked |-> FALSE, ok |-> FALSE,
       exits |-> FALSE, value |-> None, rest |-> <<>>] :
         m \in BOOLEAN, r \in Replies }
    \cup
    { [op |-> "select", done |-> FALSE, confirmMode |-> TRUE, reply |-> "",
       items |-> l, stdin |-> i, asked |-> FALSE, ok |-> FALSE,
       exits |-> FALSE, value |-> None, rest |-> <<>>] :
         l \in ItemLists,
         i \in { <<a>> : a \in SelectLines } \cup { <<a, <<"2">> >> : a \in SelectLines } }

InitFn ==
    /\ fs = [d \in Dirs |-> Absent]
    /\ pidFile = FALSE
    /\ run = 0
    /\ prev = "none"
    /\ NoProcess
    /\ fn \in FnCalls

call_confirm ==
    /\ fn.op = "confirm" /\ ~fn.done
    /\ LET c == confirm([confirm |-> fn.confirmMode], fn.reply)
       IN  fn' = [fn EXCEPT !.done = TRUE, !.asked = c.asked, !.ok = c.ok]
    /\ UNCHANGED <<fs, pidFile, run, prev, env, args, pc, mode, k, helper, cwd,
                   checked, calls, out, reads, lastConfirm, sel, prep, fs0,
                   status, diag, exc, keys, underPid>>

call_select ==
    /\ fn.op = "select" /\ ~fn.done
    /\ LET r == select(fn.items, fn.stdin)
       IN  fn' = [fn EXCEPT !.done = TRUE, !.exits = r.exits, !.value = r.value,
                            !.rest = r.rest]
    /\ UNCHANGED <<fs, pidFile, run, prev, env, args, pc, mode, k, helper, cwd,
                   checked, calls, out, reads, lastConfirm, sel, prep, fs0,
                   status, diag, exc, keys, underPid>>

NextFn == call_confirm \/ call_select

SpecFn == InitFn /\ [][NextFn]_vars

----------------------------------------------------------------------------
(* Properties                                                              *)

Started(m)  == \E i \in 1..Len(calls) : calls[i] = m
Mutating    == {"prepare_upgrade", "configure_locale", "run_upgrade"}
Listing     == {"show_locales", "show_upgrades"}
LastCall    == IF calls = <<>> THEN None ELSE calls[Len(calls)]
Interrupted == pc = "exited" /\ diag = ""

\* The lines prepare_upgrade writes for the six outcomes p.
PrepareLines(p) ==
    << "-> Import runtime content... ", p[1], "-> Remove upgrade... ", p[2],
       "-> Remove seahub-old... ", p[3], "-> Backup seahub to seahub-old... ", p[4],
       "-> Import scripts upgrade... ", p[5], "-> Import seahub... ", p[6] >>

IsPrefix(a, b) == Len(a) <= Len(b) /\ \A i \in 1..Len(a) : a[i] = b[i]

\* C1: in every run, a mutating operation (prepare_upgrade,
\* configure_locale, run_upgrade) starts only after check() has been called
\* and has returned in that run; as long as check() has not returned, only
\* the entry into interactive(), check() itself and the listings have run.
C1_CheckBeforeMutation ==
    /\ \A i \in 1..Len(calls) :
          calls[i] \in Mutating => checked /\ \E j \in 1..(i - 1) : calls[j] = "check"
    /\ ~checked => \A i \in 1..Len(calls) :
                      calls[i] \in Listing \cup {"interactive", "check"}

\* A flagged run that passed check() and ran all three mutating operations.
C1_Witness ==
    /\ mode = "flagged" /\ checked
    /\ \A m \in Mutating : Started(m)

C3_NoArgumentsRunsInteractive ==
    (pc = "exited" /\ NoArguments(args) /\ ~Interrupted) =>
        (Started("interactive") /\ Started("check"))

\* C3, amended: a run started with no arguments ends with status 1 and the
\* "Argument missing" message (or is interrupted before that), having
\* called nothing, read nothing and changed nothing; interactive() is
\* called only when the interactive flag is given.
C3_NoArgumentsExits ==
    /\ (pc = "exited" /\ NoArguments(args)) =>
          /\ calls = <<>> /\ reads = 0 /\ ~sel.called /\ fs = fs0
          /\ status = 1
          /\ diag = "Argument missing" \/ Interrupted
    /\ Started("interactive") => args.interactive

\* A run without arguments that ended with the message.
C3_Witness ==
    pc = "exited" /\ NoArguments(args) /\ diag = "Argument missing" /\ status = 1

\* The outcomes of a prepare_upgrade that follows a completed one, whose
\* rotation step ended with rotated.
SecondPrepare(rotated) ==
    << "Already exist", "Done", IF rotated = "Done" THEN "Done" ELSE "Not exist",
       "Done", "Done", "Done" >>

\* C4, as stated: in a prepare_upgrade that follows a completed one, the
\* runtime import reports "Already exist", both removals report "Not exist"
\* and the import of the upgrade scripts fails on its existing destination.
C4_SecondPrepareFails ==
    (prev # "none" /\ Len(prep) >= 5) =>
        /\ prep[1] = "Already exist"
        /\ prep[2] = "Not exist" /\ prep[3] = "Not exist"
        /\ prep[5] = "FileExistsError"

\* C4, amended: in a prepare_upgrade that follows a completed one, the
\* runtime import reports "Already exist", the removal of upgrade "Done",
\* the removal of seahub-old "Done" when the first run rotated a seahub and
\* "Not exist" otherwise, the rotation "Done" and both imports "Done"; no
\* step fails, and in verbose mode these are the lines written.
C4_SecondPrepareSucceeds ==
    prev # "none" =>
        /\ IsPrefix(prep, SecondPrepare(prev))
        /\ exc # "FileExistsError"
        /\ (Len(prep) = 6 /\ helper.verbose) =>
              IsPrefix(PrepareLines(SecondPrepare(prev)), out)

\* A second prepare_upgrade run to its end after a first one on a fresh tree.
C4_Witness ==
    prev = "Not exist" /\ Len(prep) = 6 /\ helper.verbose /\ prep[3] = "Not exist"

FreshTree == [d \in Dirs |-> Absent]

FreshPrepare == << "Done", "Not exist", "Not exist", "Not exist", "Done", "Done" >>

\* C5: prepare_upgrade started on a tree with none of runtime, upgrade,
\* seahub, seahub-old ends its steps with Done, Not exist, Not exist, Not
\* exist, Done, Done, writes these reports in this order in verbose mode,
\* and leaves runtime, upgrade and seahub with the package's content and no
\* seahub-old.
C5_FreshPrepare ==
    fs0 = FreshTree =>
        /\ IsPrefix(prep, FreshPrepare)
        /\ (Len(prep) = 6 /\ helper.verbose) => IsPrefix(PrepareLines(FreshPrepare), out)
        /\ Len(prep) = 6 =>
              fs = [d \in Dirs |-> IF d = "seahub-old" THEN Absent ELSE "pkg"]

\* A verbose run that prepared a fresh tree and ended normally.
C5_Witness ==
    /\ fs0 = FreshTree /\ Len(prep) = 6 /\ helper.verbose
    /\ pc = "exited" /\ status = 0

\* C6, as stated: in prompting mode confirm() returns true exactly for the
\* replies "", "y" and "Y".
C6_EmptyReplyAccepted ==
    (fn.op = "confirm" /\ fn.done /\ fn.confirmMode) =>
        (fn.ok <=> fn.reply \in {"", "y", "Y"})

\* C6, amended: in prompting mode confirm() reads the reply and returns
\* true exactly for "y" and "Y"; the empty reply is refused like any other.
C6_OnlyYAccepted ==
    (fn.op = "confirm" /\ fn.done /\ fn.confirmMode) =>
        /\ fn.asked
        /\ fn.ok <=> fn.reply \in {"y", "Y"}

\* confirm() has refused the empty reply.
C6_Witness ==
    fn.op = "confirm" /\ fn.done /\ fn.confirmMode /\ fn.reply = "" /\ ~fn.ok

\* The guarded steps of interactive(), in the order it runs them.
InteractiveSteps ==
    << "prepare_upgrade", "set_locale_selected", "configure_locale",
       "set_upgrade_selected", "run_upgrade" >>

\* C7, as stated: in an interactive run with --no-confirm, a guarded step
\* runs only after a confirmation was read from the operator.
C7_InteractiveForcesPrompts ==
    (mode = "interactive" /\ ~args.no_confirm) =>
        \A i \in 1..Len(InteractiveSteps) : Started(InteractiveSteps[i]) => reads > 0

\* C7, amended: in an interactive run with --no-confirm no confirmation is
\* ever read: every confirm() returns true unasked, so no guarded step is
\* skipped, and a run that ends normally has run all five.
C7_InteractiveNoConfirmNeverPrompts ==
    (mode = "interactive" /\ ~args.no_confirm) =>
        /\ reads = 0
        /\ lastConfirm.called => (lastConfirm.ok /\ ~lastConfirm.asked)
        /\ pc = "offer_locale" => Started("prepare_upgrade")
        /\ pc = "offer_upgrade" => Started("configure_locale")
        /\ (pc = "exited" /\ status = 0) =>
              \A i \in 1..Len(InteractiveSteps) : Started(InteractiveSteps[i])

\* An interactive run with --no-confirm that launched the upgrade script
\* and ended normally.
C7_Witness ==
    /\ mode = "interactive" /\ ~args.no_confirm
    /\ pc = "exited" /\ status = 0 /\ Started("script")

\* C8: in auto-confirm mode no confirm() call reads the console and every
\* one returns true.
C8_AutoConfirmNeverReads ==
    (pc # "idle" /\ ~helper.confirm) =>
        /\ reads = 0
        /\ lastConfirm.called => (lastConfirm.ok /\ ~lastConfirm.asked)

\* A flagged run in auto-confirm mode that went through the confirmation of
\* run_upgrade and launched the script.
C8_Witness ==
    /\ mode = "flagged" /\ ~helper.confirm
    /\ lastConfirm.called /\ Started("script") /\ Started("prepare_upgrade")

\* C9: select() reads one line; when the line is an integer n with
\* 1 <= n <= len(items) it returns items[n]; when it is an integer outside
\* that range it returns None without ending the process; when it is no
\* integer it ends the process.  On ["a", "b", "c"]: "2" gives "b", "0" and
\* "4" give None, "x" ends the process.
C9_Select ==
    (fn.op = "select" /\ fn.done) =>
        LET n == int(fn.stdin[1])
        IN  /\ fn.rest = Tail(fn.stdin)
            /\ fn.exits <=> ~n.ok
            /\ (n.ok /\ 1 <= n.val /\ n.val <= Len(fn.items)) =>
                  fn.value = fn.items[n.val]
            /\ (n.ok /\ (n.val < 1 \/ n.val > Len(fn.items))) => fn.value = None
            /\ fn.items = <<"a", "b", "c">> =>
                  /\ fn.stdin[1] = <<"2">> => (~fn.exits /\ fn.value = "b")
                  /\ fn.stdin[1] \in {<<"0">>, <<"4">>, <<"-", "1">>} =>
                        (~fn.exits /\ fn.value = None)
                  /\ fn.stdin[1] = <<"x">> => fn.exits

\* select() returned "b" for the line "2" on a list of three, leaving the
\* line behind it unread.
C9_Witness ==
    /\ fn.op = "select" /\ fn.done /\ fn.items = <<"a", "b", "c">>
    /\ fn.stdin = << <<"2">>, <<"2">> >> /\ fn.value = "b" /\ fn.rest = << <<"2">> >>

\* C10, as stated: a run ended by an interruption has a status other than
\* 0 and other than 1.
C10_InterruptStatusDistinct ==
    Interrupted => (status # 0 /\ status # 1)

\* C10, amended: a run ended by an interruption has status 1, which differs
\* from 0 and is the status of a failed check() and of a selection that is
\* no integer.
C10_InterruptStatusOne ==
    /\ Interrupted => (status = 1 /\ exc = NoExc)
    /\ (pc = "exited" /\ LastCall = "check" /\ ~checked /\ ~Interrupted) => status = 1
    /\ (pc = "exited" /\ sel.exits /\ ~Interrupted) => status = 1

\* A run interrupted while interactive() was waiting at an offer.
C10_Witness ==
    Interrupted /\ mode = "interactive" /\ checked /\ status = 1

\* In this step the operator was asked and declined.
Declined == reads' = reads + 1 /\ ~lastConfirm'.ok

\* In this step confirm() returned true, asked or not.
Accepted == lastConfirm'.called /\ lastConfirm'.ok /\ pc' # "exited"

\* C11: in interactive(), check() is followed by the offer of
\* prepare_upgrade, that one (declined, or accepted and prepare_upgrade run)
\* by the offer of a locale, that one by the offer of an upgrade script; an
\* offer starts its step only when its own confirm() returned true;
\* a declined offer changes nothing and leads to the next offer, the last
\* one to the normal end; a run that ended normally having started no
\* guarded step left the tree as it was and wrote nothing.
C11_OffersInOrder ==
    [][ (mode = "interactive" /\ pc' # pc) =>
          /\ pc' = "offer_prepare" => (pc = "check" /\ checked')
          /\ pc' = "offer_locale" => pc \in {"offer_prepare", "prepare_import_seahub"}
          /\ pc' = "offer_upgrade" => pc \in {"offer_locale", "configure_locale"}
          /\ pc = "offer_prepare" =>
                \/ pc' = "prepare_runtime" /\ Accepted
                \/ pc' = "offer_locale" /\ Declined /\ fs' = fs /\ calls' = calls
                \/ Interrupted'
          /\ pc = "offer_locale" =>
                \/ pc' = "set_locale_selected" /\ Accepted
                \/ pc' = "offer_upgrade" /\ Declined /\ fs' = fs /\ calls' = calls
                \/ Interrupted'
          /\ pc = "offer_upgrade" =>
                \/ pc' = "set_upgrade_selected" /\ Accepted
                \/ pc' = "exited" /\ status' = 0 /\ Declined /\ fs' = fs /\ calls' = calls
                \/ Interrupted'
          /\ (pc' = "exited" /\ status' = 0 /\ calls' = <<"interactive", "check">>) =>
                (fs' = fs0' /\ out' = <<>> /\ cwd' = "wkdir")
      ]_vars

\* An interactive run on a tree with a seahub in which the operator declined
\* the three offers and which ended normally.
C11_Witness ==
    /\ mode = "interactive" /\ pc = "exited" /\ status = 0
    /\ calls = <<"interactive", "check">> /\ reads = 3 /\ ~lastConfirm.ok
    /\ fs = fs0 /\ fs["seahub"] # Absent

\* C12, as stated: a step of run_upgrade for a named script either follows
\* an accepted confirmation, changes into <wkdir>/upgrade and launches the
\* script, or launches nothing, leaves the working directory where it was
\* and raises no error, whether <wkdir>/upgrade exists or not.
C12_RunUpgradeGuarded ==
    [][ (pc = "run_upgrade" /\ pc' # pc /\ helper.upgrade # None /\ ~Interrupted') =>
          \/ /\ LastCall' = "script"
             /\ lastConfirm'.ok /\ cwd' = "upgrade"
          \/ /\ LastCall' # "script"
             /\ cwd' = cwd /\ exc' = NoExc
      ]_vars

\* The last element of s, None when s is empty.
Last(s) == IF s = <<>> THEN None ELSE s[Len(s)]

\* C13, as stated: in an interactive run in which select() returned None
\* for a number out of range, the process did not end at the selection, and
\* the step run on the absent name was refused by the operator, reported
\* "not available", or ended in an I/O error; it ended in no other failure.
C13_AbsentNameReported ==
    (mode = "interactive" /\ sel.called /\ ~sel.exits /\ sel.value = None) =>
        /\ exc \in {NoExc, "FileNotFoundError"}
        /\ (LastCall = "configure_locale" /\ lastConfirm.ok /\ ~Interrupted) =>
              (out # <<>> /\ Last(out) = "ignored not available")

\* C14: configure_locale, accepted, for a named locale without LC_MESSAGES
\* directory under <wkdir>/seahub writes "ignored ... not available",
\* does not launch msgfmt, leaves the working directory and the tree as they
\* are and returns: interactive() goes on to the offer of an upgrade,
\* call_funcs to the keys that follow, which is the upgrade when one is named.
C14_MissingLocaleReported ==
    [][ ( /\ pc = "configure_locale" /\ calls' # calls /\ lastConfirm'.ok
          /\ helper.locale # None /\ helper.locale \notin TargetLocales(fs) ) =>
          /\ Last(out') = "ignored not available"
          /\ calls' = Append(calls, "configure_locale")
          /\ cwd' = cwd /\ fs' = fs
          /\ status' = Running /\ exc' = NoExc
          /\ IF mode = "interactive" THEN pc' = "offer_upgrade"
             ELSE /\ pc' = "call_funcs" /\ k' > k
                  /\ Truthy(args, "upgrade") => keys[k'] = "upgrade"
      ]_vars

\* A run with --locale xx --upgrade ... that reported the locale as not
\* available and has come to run_upgrade.
C14_Witness ==
    /\ mode = "flagged" /\ helper.locale = "xx" /\ pc = "run_upgrade"
    /\ LastCall = "configure_locale" /\ Last(out) = "ignored not available"
    /\ cwd = "wkdir" /\ fs = fs0

\* What a step of prepare_upgrade reports when it raises nothing uncaught.
PrepareOutcomes == {"Done", "Already exist", "Not exist"}

\* The run ended after prepare_upgrade had begun, by something other than an
\* interruption.
EndedAfterPrepare == pc = "exited" /\ ~Interrupted /\ Len(prep) >= 1

\* C15: whatever runtime, upgrade, seahub and seahub-old the run found,
\* seahub-old is absent when the rotation starts, upgrade and seahub are
\* absent when their imports start, no step of prepare_upgrade ends in an
\* uncaught error, and a run not interrupted goes through the six outcomes;
\* after them upgrade and seahub hold the package content, seahub-old holds
\* what seahub held before the run (nothing when there was none), and the
\* seahub-old found by the run was removed.
C15_PrepareCompletes ==
    /\ pc = "prepare_backup" => fs["seahub-old"] = Absent
    /\ pc = "prepare_import_upgrade" => fs["upgrade"] = Absent
    /\ pc = "prepare_import_seahub" => fs["seahub"] = Absent
    /\ \A i \in 1..Len(prep) : prep[i] \in PrepareOutcomes
    /\ \A d \in Dirs : fs[d] # "nested"
    /\ EndedAfterPrepare => Len(prep) = 6
    /\ Len(prep) = 6 =>
          /\ fs["upgrade"] = "pkg" /\ fs["seahub"] = "pkg"
          /\ fs["seahub-old"] = fs0["seahub"]
          /\ prep[3] = (IF fs0["seahub-old"] = Absent THEN "Not exist" ELSE "Done")
          /\ prep[4] = (IF fs0["seahub"] = Absent THEN "Not exist" ELSE "Done")
          /\ prep[5] = "Done" /\ prep[6] = "Done"

\* prepare_upgrade ran to its end on a tree that held all four directories.
C15_Witness ==
    /\ Len(prep) = 6 /\ \A d \in Dirs : fs0[d] # Absent
    /\ fs0["seahub-old"] = "stale" /\ fs["seahub-old"] = "old"

\* C16: when runtime exists as prepare_upgrade starts, the first step
\* reports "Already exist" and runtime keeps the content it had; the
\* removals, the rotation and the imports that follow run all the same.
C16_RuntimeOnceOnly ==
    (Len(prep) >= 1 /\ fs0["runtime"] # Absent) =>
        /\ prep[1] = "Already exist"
        /\ fs["runtime"] = fs0["runtime"]
        /\ helper.verbose =>
              IsPrefix(<<"-> Import runtime content... ", "Already exist">>, out)
        /\ EndedAfterPrepare =>
              /\ Len(prep) = 6
              /\ \A i \in 2..6 : prep[i] \in {"Done", "Not exist"}
              /\ fs["upgrade"] = "pkg" /\ fs["seahub"] = "pkg"

\* A verbose run that found an old runtime, ran prepare_upgrade and ended
\* normally.
C16_Witness ==
    /\ fs0["runtime"] = "old" /\ fs["runtime"] = "old" /\ helper.verbose
    /\ Len(prep) = 6 /\ pc = "exited" /\ status = 0

\* Positions between two steps of prepare_upgrade.
BetweenSteps ==
    { "prepare_remove_upgrade", "prepare_remove_seahub_old", "prepare_backup",
      "prepare_import_upgrade", "prepare_import_seahub" }

\* The tree after the first n steps of prepare_upgrade on the tree f.
AfterSteps(f, n) ==
    LET f1 == mkdir(f, "runtime").fs
        f2 == rmtree(f1, "upgrade").fs
        f3 == rmtree(f2, "seahub-old").fs
        f4 == move(f3, "seahub", "seahub-old").fs
        f5 == copytree(f4, "upgrade").fs
        f6 == copytree(f5, "seahub").fs
    IN  CASE n = 0 -> f [] n = 1 -> f1 [] n = 2 -> f2 [] n = 3 -> f3
          [] n = 4 -> f4 [] n = 5 -> f5 [] OTHER -> f6

CountOf(m) == Cardinality({ i \in 1..Len(calls) : calls[i] = m })

\* C18: check() runs at most once in a run and, where it returned, once,
\* before every mutating operation, having found no PID file; after it has
\* returned, no run ends with the message about the running service, and a
\* PID file that appears does not keep prepare_upgrade from its six steps:
\* the tree is written to while the PID file exists.
C18_PidCheckedOnce ==
    /\ CountOf("check") <= 1
    /\ checked => (CountOf("check") = 1 /\ ~env.pid)
    /\ \A m \in Mutating : Started(m) => checked
    /\ checked => diag # "You must stop seafile-server service"
    /\ (pidFile /\ EndedAfterPrepare) => Len(prep) = 6
    /\ underPid => (checked /\ pidFile /\ ~env.pid)

\* A run that passed check(), during which the PID file was created and
\* which then wrote to the tree in prepare_upgrade, compiled a locale and
\* launched the upgrade script.
C18_Witness ==
    /\ underPid /\ pidFile /\ checked /\ fs0["runtime"] # Absent
    /\ Len(prep) = 6 /\ fs["seahub"] = "pkg" /\ Started("script")

\* What a run started with handler flags can call, in the order of the keys
\* prepare, locale, upgrade, each with the child process it launches.
FlaggedOrder ==
    << "check", "prepare_upgrade", "configure_locale", "msgfmt", "run_upgrade",
       "script" >>

\* The place of m in FlaggedOrder, 0 when it has none.
Place(m) ==
    IF \E i \in 1..Len(FlaggedOrder) : FlaggedOrder[i] = m
    THEN CHOOSE i \in 1..Len(FlaggedOrder) : FlaggedOrder[i] = m
    ELSE 0

\* C19: whatever the order of the options on the command line, the keys of
\* the parsed arguments are in the order of add_argument; a run with handler
\* flags calls, after check(), prepare_upgrade, configure_locale and
\* run_upgrade in this order, each at most once and only when its flag was
\* given; the keys without handler call nothing, and a run that ended
\* normally has called the handler of every flag given.
C19_FixedOrder ==
    /\ keys = ArgKeys
    /\ mode = "flagged" =>
          /\ \A i \in 1..Len(calls) : Place(calls[i]) > 0
          /\ \A i, j \in 1..Len(calls) : i < j => Place(calls[i]) < Place(calls[j])
          /\ Started("prepare_upgrade") => args.prepare
          /\ Started("configure_locale") => args.locale # None
          /\ Started("run_upgrade") => args.upgrade # None
          /\ (pc = "exited" /\ status = 0) =>
                /\ args.prepare => Started("prepare_upgrade")
                /\ args.locale # None => Started("configure_locale")
                /\ args.upgrade # None => Started("run_upgrade")

\* A run given the three handler flags that ran prepare_upgrade, compiled
\* the locale, launched the script and ended normally.
C19_Witness ==
    /\ mode = "flagged" /\ pc = "exited" /\ status = 0
    /\ calls = FlaggedOrder
    /\ args.prepare /\ args.locale = "fr" /\ args.upgrade = "upgrade_6.sh"

\* C20: when prepare_upgrade starts, and at each of its steps, the working
\* directory is the one the Helper was constructed in, and nothing but the
\* entry into interactive() and check() has run before; the runtime
\* directory that was created is the one of the target tree, which then
\* holds the package's seahub.conf.
C20_PrepareInWkdir ==
    /\ pc = "prepare_runtime" =>
          /\ cwd = "wkdir"
          /\ \A i \in 1..Len(calls) : calls[i] \in {"interactive", "check"}
    /\ pc \in BetweenSteps => cwd = "wkdir"
    /\ (Len(prep) >= 1 /\ prep[1] = "Done") =>
          (fs0["runtime"] = Absent /\ fs["runtime"] = "pkg")
    /\ (Len(prep) >= 1 /\ prep[1] = "Already exist") => fs0["runtime"] # Absent

\* An interactive run whose prepare_upgrade has created runtime.
C20_Witness ==
    /\ mode = "interactive" /\ pc = "prepare_remove_upgrade" /\ cwd = "wkdir"
    /\ prep = <<"Done">> /\ fs0["runtime"] = Absent /\ fs["runtime"] = "pkg"

====
